---- MODULE Spec2Model ----
(***************************************************************************)
(* A model of plot.py, the histogram script of seqloq.  The script loads   *)
(* six sample files target/<primitive>_<metric>.dat, overlays three        *)
(* histograms per metric on pyplot's process-wide axes and saves           *)
(* histogram.read.png and histogram.write.png.                             *)
(*                                                                         *)
(* Text is modelled as sequences of one-character strings where the code   *)
(* looks inside it (file contents, str.title) and as strings where it only *)
(* concatenates (paths and file names).                                    *)
(***************************************************************************)
EXTENDS Integers, Sequences, FiniteSets, TLC

VARIABLES
    fs,       \* the input files: existing path -> [readable, data]
    cwd,      \* the working directory's images: existing name -> image
    call,     \* the driver statement being executed (index into Calls)
    pc,       \* the position inside plot(), or "exit"
    i,        \* which of the three hist statements of plot() is next
    ret,      \* the value read_data returned to the pending hist call
    chart,    \* pyplot's current axes (process-wide)
    opened,   \* the paths handed to file(), in order, by the current process
    written,  \* the names savefig has written, in order, by the current process
    exit,     \* the exit status of the current process: 0 unless it raised
    stderr,   \* the traceback the process printed: the exception and the call
              \* that raised it, NoTraceback if none
    run,      \* how many times the script has been started
    history   \* per finished process: its exit code, its traceback and the
              \* directory it left

vars == <<fs, cwd, call, pc, i, ret, chart, opened, written, exit, stderr, run, history>>

(***************************************************************************)
(* Bounds of the model.                                                    *)
(***************************************************************************)
\* The script is started at most MaxRuns times in succession.
MaxRuns == 2
\* Longest file content, in characters, that the loader is fed exhaustively.
MaxLen == 4

(***************************************************************************)
(* Text helpers.                                                           *)
(***************************************************************************)
LF == "\n"
Whitespace == {" ", LF}
Digits == <<"0", "1", "2", "3", "4", "5", "6", "7", "8", "9">>
LowerCase == <<"a","b","c","d","e","f","g","h","i","j","k","l","m",
               "n","o","p","q","r","s","t","u","v","w","x","y","z">>
UpperCase == <<"A","B","C","D","E","F","G","H","I","J","K","L","M",
               "N","O","P","Q","R","S","T","U","V","W","X","Y","Z">>

IndexIn(c, table) == CHOOSE k \in 1..Len(table) : table[k] = c
IsIn(c, table) == \E k \in 1..Len(table) : table[k] = c
IsDigit(c) == IsIn(c, Digits)
DigitValue(c) == IndexIn(c, Digits) - 1
IsAlpha(c) == IsIn(c, LowerCase) \/ IsIn(c, UpperCase)
upper(c) == IF IsIn(c, LowerCase) THEN UpperCase[IndexIn(c, LowerCase)] ELSE c
lower(c) == IF IsIn(c, UpperCase) THEN LowerCase[IndexIn(c, UpperCase)] ELSE c

\* A sequence of characters as a string.
RECURSIVE Str(_)
Str(cs) == IF cs = <<>> THEN "" ELSE Head(cs) \o Str(Tail(cs))

\* str.title(): the first letter of every run of letters in upper case, the
\* other letters in lower case.
RECURSIVE TitleFrom(_, _)
TitleFrom(cs, inWord) ==
    IF cs = <<>> THEN <<>>
    ELSE <<IF inWord THEN lower(Head(cs)) ELSE upper(Head(cs))>>
         \o TitleFrom(Tail(cs), IsAlpha(Head(cs)))
title(cs) == TitleFrom(cs, FALSE)

\* A variant of range that includes the stop value when it is hit.
range_Inclusive(start, stop, step) ==
    LET n == IF stop >= start THEN (stop - start) \div step + 1 ELSE 0
    IN  [k \in 1..n |-> start + (k - 1) * step]

\* range(start, stop, step) of Python 2, for a positive step: a list.
range(start, stop, step) ==
    LET n == IF stop > start THEN (stop - start + step - 1) \div step ELSE 0
    IN  [k \in 1..n |-> start + (k - 1) * step]

(***************************************************************************)
(* read_data: file(path).readlines() and int() on every line.              *)
(***************************************************************************)
\* A variant of readlines that loses a last line without a line feed.
RECURSIVE TerminatedLines(_, _)
TerminatedLines(cs, cur) ==
    IF cs = <<>> THEN <<>>
    ELSE IF Head(cs) = LF THEN <<Append(cur, LF)>> \o TerminatedLines(Tail(cs), <<>>)
    ELSE TerminatedLines(Tail(cs), Append(cur, Head(cs)))
readlines_DropUnterminated(data) == TerminatedLines(data, <<>>)

\* file.readlines(): the content cut after every line feed; a last line
\* without a line feed is a line too, an empty remainder is not.
RECURSIVE SplitLines(_, _)
SplitLines(cs, cur) ==
    IF cs = <<>> THEN (IF cur = <<>> THEN <<>> ELSE <<cur>>)
    ELSE IF Head(cs) = LF THEN <<Append(cur, LF)>> \o SplitLines(Tail(cs), <<>>)
    ELSE SplitLines(Tail(cs), Append(cur, Head(cs)))
readlines(data) == SplitLines(data, <<>>)

Ok(v) == [exc |-> "None", val |-> v]
Raise(e) == [exc |-> e, val |-> <<>>]

RECURSIVE SkipSpace(_)
SkipSpace(cs) ==
    IF cs # <<>> /\ Head(cs) \in Whitespace THEN SkipSpace(Tail(cs)) ELSE cs

RECURSIVE ScanDigits(_, _, _)
\* The digits at the front of cs, accumulated in base 10: the value, how
\* many digits were read, and what follows them.
ScanDigits(cs, acc, n) ==
    IF cs # <<>> /\ IsDigit(Head(cs))
    THEN ScanDigits(Tail(cs), acc * 10 + DigitValue(Head(cs)), n + 1)
    ELSE [value |-> acc, count |-> n, rest |-> cs]

\* A variant of the conversion that reads a line without digits as 0, as
\* C's atoi does.
IntOf_BlankIsZero(x, skipAfterSign) ==
    LET s0 == SkipSpace(x)
        signed == s0 # <<>> /\ Head(s0) \in {"+", "-"}
        s1 == IF signed THEN Tail(s0) ELSE s0
        d == ScanDigits(s1, 0, 0)
    IN  IF SkipSpace(d.rest) # <<>>
        THEN [exc |-> "ValueError", val |-> 0]
        ELSE [exc |-> "None",
              val |-> IF signed /\ Head(s0) = "-" THEN 0 - d.value ELSE d.value]

\* int(x) of a str, base 10: white space, an optional sign, at least one
\* digit, white space, the end.  skipAfterSign is the interpreter's choice of
\* whether white space may stand between the sign and the digits.
IntOf(x, skipAfterSign) ==
    LET s0 == SkipSpace(x)
        signed == s0 # <<>> /\ Head(s0) \in {"+", "-"}
        s1 == IF signed THEN Tail(s0) ELSE s0
        s2 == IF signed /\ skipAfterSign THEN SkipSpace(s1) ELSE s1
        d == ScanDigits(s2, 0, 0)
    IN  IF d.count = 0 \/ SkipSpace(d.rest) # <<>>
        THEN [exc |-> "ValueError", val |-> 0]
        ELSE [exc |-> "None",
              val |-> IF signed /\ Head(s0) = "-" THEN 0 - d.value ELSE d.value]

\* The path read_data opens for fn.
PathOf(fn) == "target/" \o fn \o ".dat"

\* The outcomes of int(x).  CPython 2's string-to-long scan skips white
\* space after the sign ("- 1" is -1); interpreters that scan strictly raise
\* there.  Both are kept; they differ on no other input.
int(x) == {IntOf(x, TRUE), IntOf(x, FALSE)}

\* [int(x) for x in lines]: the outcomes of converting the lines in order;
\* the first line that raises ends the comprehension.
RECURSIVE Comprehension(_)
Comprehension(lines) ==
    IF lines = <<>> THEN {Ok(<<>>)}
    ELSE UNION { IF o.exc # "None" THEN {Raise(o.exc)}
                 ELSE { IF r.exc # "None" THEN r ELSE Ok(<<o.val>> \o r.val)
                        : r \in Comprehension(Tail(lines)) }
                 : o \in int(Head(lines)) }

\* A variant of read_data that takes a file it cannot open for an empty one.
read_data_MissingIsEmpty(files, fn) ==
    LET path == PathOf(fn)
    IN  IF path \notin DOMAIN files \/ ~files[path].readable
        THEN {Ok(<<>>)}
        ELSE Comprehension(readlines(files[path].data))

\* The outcomes of read_data(fn) on the file system files.
read_data(files, fn) ==
    LET path == PathOf(fn)
    IN  IF path \notin DOMAIN files \/ ~files[path].readable
        THEN {Raise("IOError")}
        ELSE Comprehension(readlines(files[path].data))

(***************************************************************************)
(* plot(which, bins) and the driver.                                       *)
(***************************************************************************)
\* A variant of the driver that plots the write report first.
Calls_WriteFirst == <<
    [which |-> <<"w","r","i","t","e">>, bins |-> range(600, 3750, 40)],
    [which |-> <<"r","e","a","d">>,     bins |-> range(150, 200, 2)] >>

\* The two driver statements: plot('read', ...) and plot('write', ...).
Calls == <<
    [which |-> <<"r","e","a","d">>,     bins |-> range(150, 200, 2)],
    [which |-> <<"w","r","i","t","e">>, bins |-> range(600, 3750, 40)] >>

\* The three hist statements of plot(), in source order.
Series == <<
    [prefix |-> "mutex_",  label |-> "Mutex",  color |-> "g", alpha |-> "0.4"],
    [prefix |-> "rwlock_", label |-> "RwLock", color |-> "b", alpha |-> "0.4"],
    [prefix |-> "seqloq_", label |-> "Seqloq", color |-> "r", alpha |-> "0.4"] >>

which == Calls[call].which
bins == Calls[call].bins

\* The argument of the i-th read_data call of plot(which, ...).
DataName(k, w) == Series[k].prefix \o Str(w)
\* A variant of the image name that leaves the metric out.
ImageName_NoMetric(w) == "histogram" \o ".png"

\* The argument of savefig in plot(which, ...).
ImageName(w) == "histogram." \o Str(w) \o ".png"
\* The argument of xlabel in plot(which, ...).
XLabelText(w) == Str(title(w)) \o " time (nanoseconds)"

\* The six input paths of the driver's calls.
Paths == { PathOf(DataName(k, Calls[c].which)) :
           k \in 1..Len(Series), c \in 1..Len(Calls) }

\* pyplot's axes when nothing has been drawn, and after cla().
FreshAxes == [series |-> <<>>, xlabel |-> "", ylabel |-> "", legend |-> <<>>]

\* What an image file holds: the chart it was rendered from, or the
\* truncated remains of a save that failed part-way.
Rendered(c) == [complete |-> TRUE, chart |-> c]
Truncated == [complete |-> FALSE, chart |-> FreshAxes]

\* The directory dir with the file name holding image.
Put(dir, name, image) ==
    [n \in DOMAIN dir \cup {name} |-> IF n = name THEN image ELSE dir[n]]

\* The process ends with status code: the trace of the run is recorded.
NoTraceback == [exc |-> "", at |-> ""]
Traceback(exception, where) == [exc |-> exception, at |-> where]

Exits(code, trace, dir) ==
    /\ pc' = "exit"
    /\ exit' = code
    /\ stderr' = trace
    /\ history' = Append(history, [exit |-> code, stderr |-> trace, files |-> dir])

\* A variant of plot() that does not clear the axes.
Cla_NoReset ==
    /\ pc = "cla"
    /\ i' = 1
    /\ pc' = "read_data"
    /\ UNCHANGED <<fs, cwd, call, ret, chart, opened, written, exit, stderr, run, history>>

\* plt.cla()
Cla ==
    /\ pc = "cla"
    /\ chart' = FreshAxes
    /\ i' = 1
    /\ pc' = "read_data"
    /\ UNCHANGED <<fs, cwd, call, ret, opened, written, exit, stderr, run, history>>

\* read_data('<primitive>_' + which) returns a list.
ReadDataReturns ==
    /\ pc = "read_data"
    /\ \E o \in read_data(fs, DataName(i, which)) :
          /\ o.exc = "None"
          /\ ret' = o.val
    /\ opened' = Append(opened, PathOf(DataName(i, which)))
    /\ pc' = "hist"
    /\ UNCHANGED <<fs, cwd, call, i, chart, written, exit, stderr, run, history>>

\* A variant in which the error of read_data is caught and an empty list
\* is drawn instead.
ReadDataRaises_Swallowed ==
    /\ pc = "read_data"
    /\ \E o \in read_data(fs, DataName(i, which)) : o.exc # "None"
    /\ ret' = <<>>
    /\ opened' = Append(opened, PathOf(DataName(i, which)))
    /\ pc' = "hist"
    /\ UNCHANGED <<fs, cwd, call, i, chart, written, exit, stderr, run, history>>

\* read_data raises (IOError from file(), ValueError from int()); nothing
\* catches it and the interpreter exits with status 1.
ReadDataRaises ==
    /\ pc = "read_data"
    /\ \E o \in read_data(fs, DataName(i, which)) :
          /\ o.exc # "None"
          /\ Exits(1, Traceback(o.exc, "read_data"), cwd)
    /\ opened' = Append(opened, PathOf(DataName(i, which)))
    /\ UNCHANGED <<fs, cwd, call, i, ret, chart, written, run>>

\* plt.hist(<the list>, label=..., bins=bins, color=..., alpha=0.4).  The
\* drawing calls (hist, xlabel, ylabel, legend) work on memory only and are
\* taken to succeed; of pyplot's calls only savefig is modelled as failing.
Hist ==
    /\ pc = "hist"
    /\ chart' = [chart EXCEPT !.series = Append(@,
                    [data |-> ret, label |-> Series[i].label, bins |-> bins,
                     color |-> Series[i].color, alpha |-> Series[i].alpha])]
    /\ ret' = <<>>
    /\ IF i < Len(Series)
       THEN i' = i + 1 /\ pc' = "read_data"
       ELSE i' = i /\ pc' = "xlabel"
    /\ UNCHANGED <<fs, cwd, call, opened, written, exit, stderr, run, history>>

\* plt.xlabel(which.title() + " time (nanoseconds)")
XLabel ==
    /\ pc = "xlabel"
    /\ chart' = [chart EXCEPT !.xlabel = XLabelText(which)]
    /\ pc' = "ylabel"
    /\ UNCHANGED <<fs, cwd, call, i, ret, opened, written, exit, stderr, run, history>>

\* plt.ylabel("Count out of 10,000")
YLabel ==
    /\ pc = "ylabel"
    /\ chart' = [chart EXCEPT !.ylabel = "Count out of 10,000"]
    /\ pc' = "legend"
    /\ UNCHANGED <<fs, cwd, call, i, ret, opened, written, exit, stderr, run, history>>

\* plt.legend(): one entry per series drawn, its colour and its label.
Legend ==
    /\ pc = "legend"
    /\ chart' = [chart EXCEPT !.legend =
                    [k \in 1..Len(chart.series) |->
                       <<chart.series[k].color, chart.series[k].label>>]]
    /\ pc' = "savefig"
    /\ UNCHANGED <<fs, cwd, call, i, ret, opened, written, exit, stderr, run, history>>

\* A variant of the save that leaves a file that exists as it is.
SavefigWrites_KeepExisting ==
    /\ pc = "savefig"
    /\ cwd' = IF ImageName(which) \in DOMAIN cwd THEN cwd
              ELSE Put(cwd, ImageName(which), Rendered(chart))
    /\ written' = Append(written, ImageName(which))
    /\ pc' = "return"
    /\ UNCHANGED <<fs, call, i, ret, chart, opened, exit, stderr, run, history>>

\* plt.savefig('histogram.' + which + '.png') writes the file.
SavefigWrites ==
    /\ pc = "savefig"
    /\ cwd' = Put(cwd, ImageName(which), Rendered(chart))
    /\ written' = Append(written, ImageName(which))
    /\ pc' = "return"
    /\ UNCHANGED <<fs, call, i, ret, chart, opened, exit, stderr, run, history>>

\* A variant in which the error of savefig is caught and plot() returns.
SavefigRaises_Caught ==
    /\ pc = "savefig"
    /\ \E created \in BOOLEAN :
          cwd' = IF created THEN Put(cwd, ImageName(which), Truncated) ELSE cwd
    /\ pc' = "return"
    /\ UNCHANGED <<fs, call, i, ret, chart, opened, written, exit, stderr, run, history>>

\* plt.savefig raises: the file could not be created (the directory is left
\* as it was) or could not be written in full (a truncated file is left).
SavefigRaises ==
    /\ pc = "savefig"
    /\ \E created \in BOOLEAN :
          /\ cwd' = IF created THEN Put(cwd, ImageName(which), Truncated) ELSE cwd
          /\ Exits(1, Traceback("IOError", "savefig"), cwd')
    /\ UNCHANGED <<fs, call, i, ret, chart, opened, written, run>>

\* plot() returns to the driver, which has another statement.
NextCall ==
    /\ pc = "return"
    /\ call < Len(Calls)
    /\ call' = call + 1
    /\ pc' = "cla"
    /\ UNCHANGED <<fs, cwd, i, ret, chart, opened, written, exit, stderr, run, history>>

\* plot() returns from the last driver statement: the script ends.
Finish ==
    /\ pc = "return"
    /\ call = Len(Calls)
    /\ Exits(0, NoTraceback, cwd)
    /\ UNCHANGED <<fs, cwd, call, i, ret, chart, opened, written, run>>

\* The script is started again on the same files: a new process, with
\* pyplot's state as new, in the directory the last one left.
Rerun ==
    /\ pc = "exit"
    /\ run < MaxRuns
    /\ run' = run + 1
    /\ call' = 1
    /\ pc' = "cla"
    /\ i' = 1
    /\ ret' = <<>>
    /\ chart' = FreshAxes
    /\ opened' = <<>>
    /\ written' = <<>>
    /\ exit' = 0
    /\ stderr' = NoTraceback
    /\ UNCHANGED <<fs, cwd, history>>

(***************************************************************************)
(* The runs of the script.                                                 *)
(***************************************************************************)
\* The file contents a run is started on: two well-formed files with
\* different samples and a file with a non-numeric line.
SampleFiles == {
    <<"1","7",LF>>,
    <<"-","1",LF," ","7">>,
    <<"1","7",LF,"a","b","c",LF>> }

FileStates ==
    {[readable |-> TRUE, data |-> d] : d \in SampleFiles}
    \cup {[readable |-> FALSE, data |-> <<>>]}

Init ==
    /\ \E present \in SUBSET Paths : fs \in [present -> FileStates]
    /\ cwd = <<>>
    /\ call = 1
    /\ pc = "cla"
    /\ i = 1
    /\ ret = <<>>
    /\ chart = FreshAxes
    /\ opened = <<>>
    /\ written = <<>>
    /\ exit = 0
    /\ stderr = NoTraceback
    /\ run = 1
    /\ history = <<>>

Next ==
    \/ Cla
    \/ ReadDataReturns
    \/ ReadDataRaises
    \/ Hist
    \/ XLabel
    \/ YLabel
    \/ Legend
    \/ SavefigWrites
    \/ SavefigRaises
    \/ NextCall
    \/ Finish
    \/ Rerun

Spec == Init /\ [][Next]_vars

(***************************************************************************)
(* The Sample Loader on its own: one read_data call of plot(), at any of   *)
(* its six call sites, on every short file content and on files written   *)
(* from known samples.                                                     *)
(***************************************************************************)
\* The characters the exhaustive contents are made of: a digit, a sign,
\* a blank, the line feed and a letter.
Alphabet == {"1", "-", " ", LF, "a"}

RECURSIVE ContentsUpTo(_)
ContentsUpTo(n) ==
    IF n = 0 THEN {<<>>}
    ELSE LET shorter == ContentsUpTo(n - 1)
         IN  shorter \cup {Append(d, c) : d \in {x \in shorter : Len(x) = n - 1},
                                         c \in Alphabet}

\* The decimal digits of a natural number, as a writer of the files prints it.
RECURSIVE DecimalOf(_)
DecimalOf(n) ==
    IF n < 10 THEN <<Digits[n + 1]>>
    ELSE Append(DecimalOf(n \div 10), Digits[(n % 10) + 1])

\* One sample as a line of a file: padding, sign, digits, padding, line feed.
LineOf(n, style) ==
    style.lead
    \o (IF n < 0 THEN <<"-">> ELSE IF style.plus THEN <<"+">> ELSE <<>>)
    \o DecimalOf(IF n < 0 THEN 0 - n ELSE n)
    \o style.trail \o <<LF>>

RECURSIVE LinesOfSamples(_, _)
LinesOfSamples(samples, style) ==
    IF samples = <<>> THEN <<>>
    ELSE LineOf(Head(samples), style) \o LinesOfSamples(Tail(samples), style)

\* A file written from samples, one per line; the last line feed may be
\* missing.
FileOf(samples, style) ==
    LET text == LinesOfSamples(samples, style)
    IN  IF style.lastLF \/ text = <<>> THEN text
        ELSE SubSeq(text, 1, Len(text) - 1)

Styles == [lead : {<<>>, <<" ">>}, plus : BOOLEAN,
           trail : {<<>>, <<" ">>}, lastLF : BOOLEAN]
SampleValues == {0 - 17, 0, 7, 170}
SampleLists == {<<>>} \cup {<<a>> : a \in SampleValues}
               \cup {<<a, b>> : a \in SampleValues, b \in SampleValues}
WrittenFiles == {FileOf(l, st) : l \in SampleLists, st \in Styles}

\* A file no content of the loader's own file equals.
Decoy == [readable |-> TRUE, data |-> <<"9", LF>>]

LoaderInit ==
    /\ call \in 1..Len(Calls)
    /\ i \in 1..Len(Series)
    /\ \E d \in ContentsUpTo(MaxLen) \cup WrittenFiles, others \in BOOLEAN :
         LET own == PathOf(DataName(i, which))
         IN  fs = [p \in (IF others THEN Paths ELSE {own}) |->
                     IF p = own THEN [readable |-> TRUE, data |-> d] ELSE Decoy]
    /\ cwd = <<>>
    /\ pc = "read_data"
    /\ ret = <<>>
    /\ chart = FreshAxes
    /\ opened = <<>>
    /\ written = <<>>
    /\ exit = 0
    /\ stderr = NoTraceback
    /\ run = 1
    /\ history = <<>>

LoaderNext ==
    \/ ReadDataReturns
    \/ ReadDataRaises

LoaderSpec == LoaderInit /\ [][LoaderNext]_vars

(***************************************************************************)
(* What the properties below speak of, stated on the file contents and on  *)
(* the literal names of the interface, not through the script's own        *)
(* reading and naming.                                                     *)
(***************************************************************************)
ReadPaths == {"target/mutex_read.dat", "target/rwlock_read.dat",
              "target/seqloq_read.dat"}
WritePaths == {"target/mutex_write.dat", "target/rwlock_write.dat",
               "target/seqloq_write.dat"}
ReadImage == "histogram.read.png"
WriteImage == "histogram.write.png"

SeqRange(q) == {q[k] : k \in 1..Len(q)}
MaxOf(S) == CHOOSE m \in S : \A x \in S : x <= m
MinOf(S) == CHOOSE m \in S : \A x \in S : m <= x

\* The positions at which a line of data ends: every line feed, and the
\* last character.
Ends(data) == {k \in 1..Len(data) : data[k] = LF \/ k = Len(data)}
NumLines(data) == Cardinality(Ends(data))
\* The j-th line of data, its line feed included.
LineAt(data, j) ==
    LET e == CHOOSE x \in Ends(data) :
                 Cardinality({y \in Ends(data) : y <= x}) = j
        b == MaxOf({0} \cup {y \in Ends(data) : y < e})
    IN  SubSeq(data, b + 1, e)

IsBlank(line) == \A k \in 1..Len(line) : line[k] \in Whitespace
\* A line without the white space at its two ends.
Body(line) ==
    LET inked == {k \in 1..Len(line) : line[k] \notin Whitespace}
    IN  IF inked = {} THEN <<>> ELSE SubSeq(line, MinOf(inked), MaxOf(inked))
\* An optional sign directly followed by one or more decimal digits.
IsIntegerText(t) ==
    LET from == IF t # <<>> /\ t[1] \in {"+", "-"} THEN 2 ELSE 1
    IN  /\ Len(t) >= from
        /\ \A k \in from..Len(t) : t[k] \in SeqRange(Digits)
RECURSIVE Power10(_)
Power10(n) == IF n = 0 THEN 1 ELSE 10 * Power10(n - 1)
RECURSIVE SumOver(_, _)
SumOver(S, f) ==
    IF S = {} THEN 0
    ELSE LET x == CHOOSE y \in S : TRUE IN f[x] + SumOver(S \ {x}, f)
\* The integer a text of that form denotes.
IntegerValue(t) ==
    LET from == IF t[1] \in {"+", "-"} THEN 2 ELSE 1
        magnitude == SumOver(from..Len(t),
            [k \in from..Len(t) |->
                (CHOOSE v \in 0..9 : Digits[v + 1] = t[k]) * Power10(Len(t) - k)])
    IN  IF t[1] = "-" THEN 0 - magnitude ELSE magnitude

IsIntegerLine(line) == IsIntegerText(Body(line))
\* A sign, white space, digits: the one form on which interpreters differ.
IsSpacedSignLine(line) ==
    LET t == Body(line)
    IN  /\ Len(t) >= 3
        /\ t[1] \in {"+", "-"}
        /\ t[2] \in Whitespace
        /\ IsIntegerText(<<t[1]>> \o Body(Tail(t)))

\* The file at path exists, can be read, and each of its lines is an integer.
WellFormed(path) ==
    /\ path \in DOMAIN fs
    /\ fs[path].readable
    /\ \A j \in 1..NumLines(fs[path].data) : IsIntegerLine(LineAt(fs[path].data, j))
Missing(path) == path \notin DOMAIN fs \/ ~fs[path].readable
\* The samples a well-formed file holds.
SamplesOf(data) ==
    [j \in 1..NumLines(data) |-> IntegerValue(Body(LineAt(data, j)))]

AllWellFormed == \A p \in ReadPaths \cup WritePaths : WellFormed(p)
SaveFailed == pc = "exit" /\ stderr.at = "savefig"

(***************************************************************************)
(* C1.  With all six input files present and every line of each a valid    *)
(* integer, a run in which no save fails ends with exit code 0, having     *)
(* written histogram.read.png and then histogram.write.png, each once; and *)
(* no run ever writes a file of another name.                              *)
(***************************************************************************)
C1_TwoImagesOnSuccess ==
    /\ SeqRange(written) \cup DOMAIN cwd \subseteq {ReadImage, WriteImage}
    /\ (pc = "exit" /\ ~SaveFailed /\ AllWellFormed) =>
          /\ exit = 0
          /\ written = <<ReadImage, WriteImage>>
          /\ DOMAIN cwd = {ReadImage, WriteImage}

C1_Witness ==
    /\ AllWellFormed
    /\ pc = "exit"
    /\ exit = 0
    /\ written = <<ReadImage, WriteImage>>

\* C1 as stated: well-formed inputs alone make the run succeed.
C1_Original ==
    (pc = "exit" /\ AllWellFormed) =>
        (exit = 0 /\ SeqRange(written) = {ReadImage, WriteImage})

(***************************************************************************)
(* C2.  histogram.<m>.png is written only after the three sample files of  *)
(* metric m have been opened and loaded without error: whenever the image  *)
(* of m has been written, each of the three files of m exists, is          *)
(* readable, holds only integer lines and has been opened.                 *)
(***************************************************************************)
C2_ImageOnlyAfterThreeLoads ==
    /\ ReadImage \in SeqRange(written) =>
          \A p \in ReadPaths : WellFormed(p) /\ p \in SeqRange(opened)
    /\ WriteImage \in SeqRange(written) =>
          \A p \in WritePaths : WellFormed(p) /\ p \in SeqRange(opened)

\* target/rwlock_write.dat is absent, a sibling holds a non-numeric line: the
\* run has ended with the read image written and no write image.
C2_Witness ==
    /\ "target/rwlock_write.dat" \notin DOMAIN fs
    /\ pc = "exit"
    /\ exit = 1
    /\ written = <<ReadImage>>
    /\ WriteImage \notin DOMAIN cwd

(***************************************************************************)
(* C3.  The read report does not depend on the write files.  No write file *)
(* is opened before histogram.read.png is written; whatever the state of   *)
(* the three write files, a finished run has written histogram.read.png    *)
(* if and only if the three read files are well-formed and the save of the *)
(* read chart did not fail; and once written, the image stays in place,    *)
(* complete, also when the write report fails.                             *)
(***************************************************************************)
WriteFileOpened == SeqRange(opened) \cap WritePaths # {}
ReadSaveFailed == SaveFailed /\ ~WriteFileOpened

\* C3: the read image is written before a write file is opened; a finished
\* run has written it exactly when the read files are well-formed and its
\* save did not fail; once written it stays, complete.
C3_ReadReportIndependent ==
    /\ WriteFileOpened => ReadImage \in SeqRange(written)
    /\ pc = "exit" =>
          (ReadImage \in SeqRange(written)
             <=> ((\A p \in ReadPaths : WellFormed(p)) /\ ~ReadSaveFailed))
    /\ ReadImage \in SeqRange(written) =>
          (ReadImage \in DOMAIN cwd /\ cwd[ReadImage].complete)

\* The three write files are all absent and the run has failed on them,
\* leaving the read image.
C3_Witness ==
    /\ DOMAIN fs = ReadPaths
    /\ pc = "exit"
    /\ exit = 1
    /\ written = <<ReadImage>>
    /\ cwd[ReadImage].complete

\* C3 as stated: well-formed read files alone decide the read image.
C3_Original ==
    pc = "exit" =>
        (ReadImage \in SeqRange(written) <=> \A p \in ReadPaths : WellFormed(p))

(***************************************************************************)
(* C4.  Every error is fatal.  A load of a file that is missing,           *)
(* unreadable or malformed, and a save that fails, end the process at once *)
(* with exit code 1 and a traceback, opening no further file and writing   *)
(* no further image; a step that leaves read_data or savefig without       *)
(* ending the process has loaded, or written, in full; an ended process    *)
(* takes no further step (the only step is a new start of the script); and *)
(* a run that fails before histogram.read.png is written never opens a     *)
(* write file nor writes histogram.write.png.                              *)
(***************************************************************************)
C4_Step ==
    /\ pc = "read_data" =>
          LET path == opened'[Len(opened')]
          IN  /\ opened' = Append(opened, path)
              /\ ~WellFormed(path) => pc' = "exit"
              /\ pc' = "exit" =>
                    /\ exit' = 1
                    /\ stderr'.exc \in {"IOError", "ValueError"}
                    /\ written' = written /\ cwd' = cwd
              /\ pc' # "exit" => (WellFormed(path) /\ exit' = 0)
    /\ pc = "savefig" =>
          /\ opened' = opened
          /\ pc' = "exit" =>
                (exit' = 1 /\ stderr'.exc = "IOError" /\ written' = written)
          /\ pc' # "exit" =>
                /\ Len(written') = Len(written) + 1
                /\ cwd'[written'[Len(written')]].complete
                /\ exit' = 0
    /\ pc = "exit" => (run' = run + 1 /\ opened' = <<>> /\ written' = <<>>)
    /\ (pc' = "exit" /\ exit' = 1 /\ ReadImage \notin SeqRange(written')) =>
          /\ WriteImage \notin SeqRange(written')
          /\ SeqRange(opened') \cap WritePaths = {}
    /\ exit' = 1 => (pc' = "exit" /\ stderr' # NoTraceback)

\* C4: every step of every run obeys C4_Step: a failed load or save ends
\* the process at once with exit code 1, and nothing follows it.
C4_NoRecovery == [][C4_Step]_vars

\* The second read file is malformed while all write files are well-formed:
\* the run has ended on it, with nothing written.
C4_Witness ==
    /\ \A p \in WritePaths : WellFormed(p)
    /\ pc = "exit"
    /\ exit = 1
    /\ stderr = Traceback("ValueError", "read_data")
    /\ opened = <<"target/mutex_read.dat", "target/rwlock_read.dat">>
    /\ written = <<>>
    /\ cwd = <<>>

(***************************************************************************)
(* C5.  A missing or unreadable input file aborts the run where it is      *)
(* opened, with exit code 1: the run writes no image for that file's       *)
(* metric, nor for a later metric.  A run in which one of the three read   *)
(* files is missing or unreadable writes no image at all.                  *)
(***************************************************************************)
C5_NoImageFromMissingFile ==
    /\ (\E p \in ReadPaths : Missing(p)) => (written = <<>> /\ DOMAIN cwd = {})
    /\ (\E p \in WritePaths : Missing(p)) =>
          (WriteImage \notin SeqRange(written) /\ WriteImage \notin DOMAIN cwd)
    /\ (pc = "exit" /\ \E p \in ReadPaths \cup WritePaths : Missing(p)) => exit = 1

\* target/seqloq_read.dat is unreadable, the other five files are
\* well-formed: the run has ended with an IOError and no image.
C5_Witness ==
    /\ "target/seqloq_read.dat" \in DOMAIN fs
    /\ ~fs["target/seqloq_read.dat"].readable
    /\ \A p \in (ReadPaths \cup WritePaths) \ {"target/seqloq_read.dat"} : WellFormed(p)
    /\ pc = "exit"
    /\ stderr = Traceback("IOError", "read_data")
    /\ written = <<>>

\* C5 as stated: a missing or unreadable file anywhere means no image at all.
C5_Original ==
    (\E p \in ReadPaths \cup WritePaths : Missing(p)) => written = <<>>

(***************************************************************************)
(* C6.  Whatever the samples, every series of the read chart is drawn with *)
(* the bin edges 150, 152, ..., 198, which are 25 edges and make 24 bins,  *)
(* and every series of the write chart with the bin edges 600, 640, ...,   *)
(* 3720, which are 79 edges and make 78 bins; the three series of a chart  *)
(* get the same edges.                                                     *)
(***************************************************************************)
\* A sequence of edges bounds one bin between each two neighbours.
NumBins(edges) == Len(edges) - 1
ReadEdges == [k \in 1..25 |-> 148 + 2 * k]
WriteEdges == [k \in 1..79 |-> 560 + 40 * k]
Saved(name) == name \in DOMAIN cwd /\ cwd[name].complete
SeriesOf(name) == cwd[name].chart.series

\* C6: every saved read series has the 25 edges 150..198 (24 bins), every
\* saved write series the 79 edges 600..3720 (78 bins).
C6_FixedBinEdges ==
    /\ Saved(ReadImage) =>
          \A k \in 1..Len(SeriesOf(ReadImage)) :
              /\ SeriesOf(ReadImage)[k].bins = ReadEdges
              /\ NumBins(SeriesOf(ReadImage)[k].bins) = 24
    /\ Saved(WriteImage) =>
          \A k \in 1..Len(SeriesOf(WriteImage)) :
              /\ SeriesOf(WriteImage)[k].bins = WriteEdges
              /\ NumBins(SeriesOf(WriteImage)[k].bins) = 78

\* Both images are saved, each with three series, from samples that all lie
\* below the first edge.
C6_Witness ==
    /\ Saved(ReadImage) /\ Len(SeriesOf(ReadImage)) = 3
    /\ Saved(WriteImage) /\ Len(SeriesOf(WriteImage)) = 3
    /\ \A k \in 1..3 : SeriesOf(WriteImage)[k].data \in {<<17>>, <<0 - 1, 7>>}

\* C6 as stated: the write chart's edges make 79 bins.
C6_Original ==
    Saved(WriteImage) =>
        \A k \in 1..Len(SeriesOf(WriteImage)) :
            /\ SeriesOf(WriteImage)[k].bins = WriteEdges
            /\ NumBins(SeriesOf(WriteImage)[k].bins) = 79

(***************************************************************************)
(* C7.  Running the script again on unchanged well-formed inputs: every    *)
(* run in which no save fails ends with exit code 0, having written both   *)
(* images; a run that succeeds leaves exactly histogram.read.png and       *)
(* histogram.write.png, both complete, whatever it found in the directory; *)
(* and any two runs that succeed leave the same files with the same chart  *)
(* content.                                                                *)
(***************************************************************************)
C7_RerunIdempotent ==
    (history # <<>> /\ AllWellFormed) =>
        /\ \A a \in 1..Len(history) :
              /\ history[a].stderr.at # "savefig" => history[a].exit = 0
              /\ history[a].exit = 0 =>
                    /\ DOMAIN history[a].files = {ReadImage, WriteImage}
                    /\ \A n \in DOMAIN history[a].files :
                          /\ history[a].files[n].complete
                          /\ Len(history[a].files[n].chart.series) = 3
        /\ \A a, b \in 1..Len(history) :
              (history[a].exit = 0 /\ history[b].exit = 0) =>
                  history[a].files = history[b].files
        /\ (pc = "exit" /\ exit = 0) =>
              (written = <<ReadImage, WriteImage>> /\ cwd = history[Len(history)].files)

\* Two runs in succession have both succeeded on well-formed inputs.
C7_Witness ==
    /\ AllWellFormed
    /\ Len(history) >= 2
    /\ history[1].exit = 0
    /\ history[2].exit = 0
    /\ history[1].files = history[2].files
    /\ run = 2
    /\ written = <<ReadImage, WriteImage>>

\* C7 as stated: on well-formed inputs both runs succeed and leave the same
\* files.
C7_Original ==
    (history # <<>> /\ AllWellFormed) =>
        \A a, b \in 1..Len(history) :
            /\ history[a].exit = 0
            /\ history[a].files = history[b].files

(***************************************************************************)
(* C9.  At every save step the chart holds exactly three series, loaded    *)
(* from the mutex, rwlock and seqloq file of the metric being saved, in    *)
(* that order, labelled and coloured (Mutex, g), (RwLock, b), (Seqloq, r)  *)
(* with alpha 0.4, the axis texts of that metric and a legend of those     *)
(* three; the chart saved as histogram.write.png holds nothing of the read *)
(* report.                                                                 *)
(***************************************************************************)
ReadFiles == <<"target/mutex_read.dat", "target/rwlock_read.dat",
               "target/seqloq_read.dat">>
WriteFiles == <<"target/mutex_write.dat", "target/rwlock_write.dat",
                "target/seqloq_write.dat">>
Labels == <<"Mutex", "RwLock", "Seqloq">>
Colours == <<"g", "b", "r">>

\* c is the chart of the report that loads files and titles its axis text.
IsChartOf(c, files, text) ==
    /\ Len(c.series) = 3
    /\ \A k \in 1..3 :
          /\ c.series[k].data = SamplesOf(fs[files[k]].data)
          /\ c.series[k].label = Labels[k]
          /\ c.series[k].color = Colours[k]
          /\ c.series[k].alpha = "0.4"
    /\ c.xlabel = text
    /\ c.ylabel = "Count out of 10,000"
    /\ c.legend = <<<<"g", "Mutex">>, <<"b", "RwLock">>, <<"r", "Seqloq">>>>

\* C9: at each save step, and in each saved image, the chart is exactly the
\* three series, texts and legend of its own metric.
C9_ChartResetPerReport ==
    /\ pc = "savefig" =>
          IF WriteFileOpened
          THEN IsChartOf(chart, WriteFiles, "Write time (nanoseconds)")
          ELSE IsChartOf(chart, ReadFiles, "Read time (nanoseconds)")
    /\ Saved(ReadImage) =>
          IsChartOf(cwd[ReadImage].chart, ReadFiles, "Read time (nanoseconds)")
    /\ Saved(WriteImage) =>
          IsChartOf(cwd[WriteImage].chart, WriteFiles, "Write time (nanoseconds)")

\* The write chart is about to be saved, after a read report whose samples
\* differ from the write report's in every series.
C9_Witness ==
    /\ pc = "savefig"
    /\ WriteFileOpened
    /\ Saved(ReadImage)
    /\ \A k \in 1..3 : fs[ReadFiles[k]].data # fs[WriteFiles[k]].data
    /\ Len(chart.series) = 3

(***************************************************************************)
(* C8.  The Sample Loader, called for primitive p and metric m, opens      *)
(* target/<p>_<m>.dat and nothing else and changes no file, image or       *)
(* chart.  When it returns, its result has one element per line of the     *)
(* file; on a well-formed file it returns, and the i-th element is the     *)
(* integer of the i-th line: a file written from a list of samples, one    *)
(* per line, loads as that list.                                           *)
(***************************************************************************)
Primitives == <<"mutex", "rwlock", "seqloq">>
Metrics == <<"read", "write">>
\* The files written from known samples, each with the samples it holds.
WrittenPairs == {<<FileOf(l, st), l>> : l \in SampleLists, st \in Styles}

C8_Step ==
    pc = "read_data" =>
        LET path == "target/" \o Primitives[i] \o "_" \o Metrics[call] \o ".dat"
            data == fs[path].data
        IN  /\ opened' = Append(opened, path)
            /\ fs' = fs /\ cwd' = cwd /\ chart' = chart /\ written' = written
            /\ pc' = "hist" => Len(ret') = NumLines(data)
            /\ WellFormed(path) => (pc' = "hist" /\ ret' = SamplesOf(data))
            /\ \A w \in WrittenPairs :
                  w[1] = data => (pc' = "hist" /\ ret' = w[2])

\* C8: every read_data step opens exactly target/<p>_<m>.dat, changes
\* nothing else, and returns the file's integers in line order.
C8_LoaderReadsItsFile == [][C8_Step]_vars

\* target/rwlock_write.dat, written from -17 and 170 with padding and a
\* plus sign and without a last line feed, has been loaded among five
\* other files.
C8_Witness ==
    /\ DOMAIN fs = ReadPaths \cup WritePaths
    /\ fs["target/rwlock_write.dat"].data
         = <<" ","-","1","7"," ",LF," ","+","1","7","0"," ">>
    /\ opened = <<"target/rwlock_write.dat">>
    /\ pc = "hist"
    /\ ret = <<0 - 17, 170>>

(***************************************************************************)
(* C10.  Line acceptance of the Sample Loader.  If every line of the file, *)
(* apart from white space at its two ends (the line feed included), is an  *)
(* optional sign directly followed by decimal digits, the load returns     *)
(* those integers; an empty file loads as the empty list, and a final line *)
(* feed makes no extra line.  A line of any other form raises ValueError   *)
(* and ends the process with exit code 1 - a blank line too, also a        *)
(* trailing one - except that a sign separated from its digits by white    *)
(* space is accepted or refused, as the interpreter's int() has it.        *)
(***************************************************************************)
LoadedData == fs[opened[1]].data
Loaded == pc # "read_data"

\* C10: integer lines load as their integers; any other line, a blank one
\* included, raises ValueError and ends the process with exit code 1.
C10_LineAcceptance ==
    Loaded =>
        /\ (\A j \in 1..NumLines(LoadedData) : IsIntegerLine(LineAt(LoadedData, j)))
              => (pc = "hist" /\ ret = SamplesOf(LoadedData))
        /\ (\E j \in 1..NumLines(LoadedData) :
                /\ ~IsIntegerLine(LineAt(LoadedData, j))
                /\ ~IsSpacedSignLine(LineAt(LoadedData, j)))
              => /\ pc = "exit"
                 /\ exit = 1
                 /\ stderr = Traceback("ValueError", "read_data")
        /\ LoadedData = <<>> => (pc = "hist" /\ ret = <<>>)

\* A file of one sample followed by a blank line has failed to load.
C10_Witness ==
    /\ Loaded
    /\ LoadedData = <<"1", LF, LF>>
    /\ pc = "exit"
    /\ stderr = Traceback("ValueError", "read_data")

\* C10 as stated: blank lines at the end of a file of integers are
\* tolerated.
C10_Original ==
    (/\ Loaded
     /\ \A j \in 1..NumLines(LoadedData) :
           \/ IsIntegerLine(LineAt(LoadedData, j))
           \/ \A k \in j..NumLines(LoadedData) : IsBlank(LineAt(LoadedData, k)))
    => pc = "hist"
====
